---- MODULE Spec2Model ----
(***************************************************************************)
(* Gravatar proxy: the disk-backed cache store (internal/cache/cache.go)   *)
(* and the request handler's revalidation protocol                         *)
(* (internal/proxy/proxy.go).                                              *)
(*                                                                         *)
(* Every method of Cache runs its whole body under c.mu (Lock or RLock),   *)
(* so each method is one atomic step on the store.  The handler's own      *)
(* statements between two store calls are separate steps, and its reads    *)
(* through the *CacheEntry that Get returned are made without the lock.    *)
(***************************************************************************)
EXTENDS Integers, Sequences, FiniteSets, TLC

\* ------------------------------------------------------------------ bounds
\* cfg.CacheTTL and cfg.MaxCacheBytes, in model units (clock ticks, bytes).
TTL == 1
MaxBytes == 2
\* The clock runs far enough for an entry to become stale after a refresh.
MaxTime == TTL + 1

KeySeq == <<"k1", "k2", "k3">>
Keys == {KeySeq[i] : i \in 1..Len(KeySeq)}
Reqs == {1, 2}
Nil == 0
ObjIds == 1..(Cardinality(Keys) + Cardinality(Reqs) + 1)

\* Payloads passed to Set by direct callers of the store: one byte, one
\* that fills the byte ceiling exactly, and one that alone exceeds it.
SmallA == <<1>>
SmallB == [i \in 1..MaxBytes |-> 2]
Oversize == [i \in 1..(MaxBytes + 1) |-> 9]
StoreData == {SmallA, SmallB, Oversize}

\* ------------------------------------------------------------- data model
NoHeaders == [ETag |-> "", LastModified |-> ""]

ZeroMeta ==
  [CreatedAt |-> 0, LastAccessedAt |-> 0, Headers |-> NoHeaders,
   StatusCode |-> 0, Size |-> 0]

FreeObj == [Key |-> "", Metadata |-> ZeroMeta]

NoFile == [st |-> "absent", bytes |-> <<>>]
NoMetaFile == [st |-> "absent", m |-> ZeroMeta]
NoDoc ==
  [st |-> "absent", entries |-> [k \in Keys |-> <<>>], accessList |-> <<>>]

VARIABLES
  index,         \* Cache.index: key -> *CacheEntry (an object id, Nil if absent)
  heap,          \* the CacheEntry objects the pointers refer to
  accessList,    \* Cache.accessList
  currentBytes,  \* Cache.currentBytes
  files,         \* <dir>/<key>: the artifact files
  metas,         \* <dir>/<key>.meta: the metadata files
  doc,           \* <dir>/index.json
  now,           \* the wall clock
  req,           \* one record per handler goroutine
  allowedOrigins, \* Handler.allowedOrigins (cfg.AllowedOrigins)
  mu,            \* Cache.mu: the goroutines holding the RWMutex
  last,          \* what the last direct call on the store returned
  touched        \* keys in the order of their last Set/ReadData on this Cache

vars ==
  <<index, heap, accessList, currentBytes, files, metas, doc, now, req,
    allowedOrigins, mu, last, touched>>

\* The store as one value: the Cache struct and the cache directory.
Store ==
  [index |-> index, heap |-> heap, accessList |-> accessList,
   currentBytes |-> currentBytes, files |-> files, metas |-> metas, doc |-> doc]

EmptyStore ==
  [index |-> [k \in Keys |-> Nil], heap |-> [i \in ObjIds |-> FreeObj],
   accessList |-> <<>>, currentBytes |-> 0, files |-> [k \in Keys |-> NoFile],
   metas |-> [k \in Keys |-> NoMetaFile], doc |-> NoDoc]

\* ------------------------------------------------------- the store's lock
\* sync.RWMutex: one writer, or any number of readers.
Unlocked == [writer |-> Nil, readers |-> {}]

CanLock(m) == m.writer = Nil /\ m.readers = {}
CanRLock(m) == m.writer = Nil

Lock(m, g) == [m EXCEPT !.writer = g]
RLock(m, g) == [m EXCEPT !.readers = @ \cup {g}]

\* A variant of the deferred RUnlock that leaves the read lock held.
RUnlock_Skipped(m, g) == m

\* defer c.mu.Unlock() / defer c.mu.RUnlock(): released when the method returns.
Unlock(m, g) == [m EXCEPT !.writer = Nil]
RUnlock(m, g) == [m EXCEPT !.readers = @ \ {g}]

Holds(m, g) == m.writer = g \/ g \in m.readers

\* A method body run by goroutine g between Lock and the deferred Unlock,
\* or between RLock and the deferred RUnlock.
Exclusive(g) == CanLock(mu) /\ mu' = Unlock(Lock(mu, g), g)
Shared(g) == CanRLock(mu) /\ mu' = RUnlock(RLock(mu, g), g)

\* ------------------------------------------------------------ pure helpers
RECURSIVE SumSizes(_, _)
SumSizes(S, ks) ==
  IF ks = {} THEN 0
  ELSE LET k == CHOOSE x \in ks : TRUE
       IN  (IF S.index[k] = Nil THEN 0 ELSE S.heap[S.index[k]].Metadata.Size)
           + SumSizes(S, ks \ {k})

Positions(s, x) == {i \in 1..Len(s) : s[i] = x}

Min(set) == CHOOSE x \in set : \A y \in set : x <= y

RemoveAt(s, i) == [j \in 1..(Len(s) - 1) |-> IF j < i THEN s[j] ELSE s[j + 1]]

\* Objects some pointer still refers to: the index and the handlers' locals.
Referenced(idx, rq) ==
  {idx[k] : k \in Keys} \cup {rq[r].entry : r \in Reqs}

\* &CacheEntry{...}: a fresh object, distinct from every object in use.
NewObj(S) == Min(ObjIds \ Referenced(S.index, req))

\* Object ids are addresses: only which pointers are equal matters.  An
\* object the index refers to is renamed to its key's position, an object
\* only handlers still hold to a number after those, and an object nothing
\* refers to any more is reclaimed.
KeyPos(k) == CHOOSE i \in 1..Len(KeySeq) : KeySeq[i] = k

\* The canonical id of the object id: an indexed object takes the position
\* of its key, an object only handlers hold takes the slot of the first
\* handler holding it.
Renaming(S, rq) ==
  [id \in ObjIds \cup {Nil} |->
     IF id = Nil THEN Nil
     ELSE IF \E k \in Keys : S.index[k] = id
          THEN KeyPos(CHOOSE k \in Keys : S.index[k] = id)
     ELSE IF \E r \in Reqs : rq[r].entry = id
          THEN Len(KeySeq) + Min({r \in Reqs : rq[r].entry = id})
     ELSE Nil]

Collect(S, rq) ==
  LET idx == S.index
      hp == S.heap
      held == {rq[r].entry : r \in Reqs} \ {Nil}
  IN  [S EXCEPT
         !.index = [k \in Keys |-> IF idx[k] = Nil THEN Nil ELSE KeyPos(k)],
         !.heap = [n \in ObjIds |->
                     IF n <= Len(KeySeq)
                     THEN IF idx[KeySeq[n]] = Nil THEN FreeObj
                          ELSE hp[idx[KeySeq[n]]]
                     ELSE IF n - Len(KeySeq) \in Reqs
                             /\ rq[n - Len(KeySeq)].entry \in held
                             /\ \A k \in Keys :
                                  idx[k] # rq[n - Len(KeySeq)].entry
                             /\ \A r \in Reqs :
                                  rq[r].entry = rq[n - Len(KeySeq)].entry
                                    => r >= n - Len(KeySeq)
                          THEN hp[rq[n - Len(KeySeq)].entry]
                          ELSE FreeObj]]

CollectReqs(S, rq) ==
  IF \A r \in Reqs : rq[r].entry = Nil THEN rq
  ELSE LET ren == Renaming(S, rq)
       IN  [r \in Reqs |-> [rq[r] EXCEPT !.entry = ren[rq[r].entry]]]

\* A variant that already expires an entry whose age equals the ttl.
Expired_AtTtl(m) == now - m.CreatedAt >= TTL

\* time.Since(entry.Metadata.CreatedAt) > c.ttl
Expired(m) == now - m.CreatedAt > TTL

\* A variant that appends the key without dropping its old position.
updateAccessList_AppendOnly(al, key) == Append(al, key)

\* A variant that appends a new key but never moves one already listed.
updateAccessList_NoRefresh(al, key) ==
  IF Positions(al, key) = {} THEN Append(al, key) ELSE al

\* ------------------------------------------------------- store operations
\* updateAccessList: drop the first occurrence of key, append key.
updateAccessList(al, key) ==
  LET pos == Positions(al, key)
  IN  Append(IF pos = {} THEN al ELSE RemoveAt(al, Min(pos)), key)

\* A variant that never evicts.
evictIfNeeded_Never(S) == S

\* A variant that evicts until the total is below the ceiling.
RECURSIVE evictIfNeeded_Below(_)
evictIfNeeded_Below(S) ==
  IF S.currentBytes >= MaxBytes /\ Len(S.accessList) > 0
  THEN LET lruKey == Head(S.accessList)
           S1 == [S EXCEPT !.accessList = Tail(S.accessList)]
       IN  IF S.index[lruKey] = Nil
           THEN evictIfNeeded_Below(S1)
           ELSE evictIfNeeded_Below(
                  [S1 EXCEPT !.files[lruKey] = NoFile,
                             !.metas[lruKey] = NoMetaFile,
                             !.currentBytes =
                                @ - S.heap[S.index[lruKey]].Metadata.Size,
                             !.index[lruKey] = Nil])
  ELSE S

\* evictIfNeeded: pop the head of the access list while over the ceiling.
RECURSIVE evictIfNeeded(_)
evictIfNeeded(S) ==
  IF S.currentBytes > MaxBytes /\ Len(S.accessList) > 0
  THEN LET lruKey == Head(S.accessList)
           S1 == [S EXCEPT !.accessList = Tail(S.accessList)]
       IN  IF S.index[lruKey] = Nil
           THEN evictIfNeeded(S1)
           ELSE evictIfNeeded(
                  [S1 EXCEPT !.files[lruKey] = NoFile,
                             !.metas[lruKey] = NoMetaFile,
                             !.currentBytes =
                                @ - S.heap[S.index[lruKey]].Metadata.Size,
                             !.index[lruKey] = Nil])
  ELSE S

\* os.WriteFile: on success the file holds the new content; a failed write
\* leaves the old file or a truncated one.
WriteOutcomes == {"ok", "fail_keep", "fail_trunc"}
Failed(o) == o # "ok"

WriteBytes(old, bytes, o) ==
  CASE o = "ok" -> [st |-> "ok", bytes |-> bytes]
    [] o = "fail_keep" -> old
    [] OTHER -> [st |-> "ok", bytes |-> <<>>]

WriteMeta(old, m, o) ==
  CASE o = "ok" -> [st |-> "ok", m |-> m]
    [] o = "fail_keep" -> old
    [] OTHER -> [st |-> "bad", m |-> ZeroMeta]

\* A variant that writes every entry's size as zero.
IndexDocument_DropSize(S) ==
  [st |-> "ok",
   entries |-> [k \in Keys |->
                  IF S.index[k] = Nil THEN <<>>
                  ELSE <<[S.heap[S.index[k]].Metadata EXCEPT !.Size = 0]>>],
   accessList |-> S.accessList]

\* saveIndex: marshal the index (entries by value) and the access list.
IndexDocument(S) ==
  [st |-> "ok",
   entries |-> [k \in Keys |-> IF S.index[k] = Nil THEN <<>>
                               ELSE <<S.heap[S.index[k]].Metadata>>],
   accessList |-> S.accessList]

saveIndex(S, o) ==
  [S EXCEPT !.doc =
     CASE o = "ok" -> IndexDocument(S)
       [] o = "fail_keep" -> @
       [] OTHER -> [NoDoc EXCEPT !.st = "bad"]]

\* saveMetadata
saveMetadata(S, key, metadata, o) ==
  [S EXCEPT !.metas[key] = WriteMeta(@, metadata, o)]

\* The bookkeeping of Set once both files are written, up to the eviction
\* pass (cache.go 118-130).
SetInserted(S, key, metadata) ==
  LET id == NewObj(S)
      S1 == [S EXCEPT !.currentBytes =
                 IF S.index[key] # Nil
                 THEN @ - S.heap[S.index[key]].Metadata.Size ELSE @]
      S2 == [S1 EXCEPT !.heap[id] = [Key |-> key, Metadata |-> metadata],
                       !.index[key] = id,
                       !.currentBytes = @ + metadata.Size]
  IN  [S2 EXCEPT !.accessList = updateAccessList(@, key)]

\* ... and with it (cache.go 118-132).
SetIndexEntry(S, key, metadata) == evictIfNeeded(SetInserted(S, key, metadata))

\* Set(key, data, metadata); wf, wm, wi are the outcomes of the three writes.
Set(S, key, data, metadata, wf, wm, wi) ==
  LET S1 == [S EXCEPT !.files[key] = WriteBytes(@, data, wf)]
      md == [metadata EXCEPT !.Size = Len(data)]
      S2 == [S1 EXCEPT !.metas[key] = WriteMeta(@, md, wm)]
  IN  IF Failed(wf) THEN [S |-> S1, err |-> TRUE]
      ELSE IF Failed(wm) THEN [S |-> S2, err |-> TRUE]
      ELSE [S |-> saveIndex(SetIndexEntry(S2, key, md), wi), err |-> FALSE]

\* Get(key) -> (entry, valid)
Get(S, key) ==
  IF S.index[key] = Nil THEN [entry |-> Nil, valid |-> FALSE]
  ELSE IF Expired(S.heap[S.index[key]].Metadata)
       THEN [entry |-> S.index[key], valid |-> FALSE]
       ELSE [entry |-> S.index[key], valid |-> TRUE]

\* A variant that also refreshes CreatedAt.
ReadData_RefreshCreated(S, key, wm, rd) ==
  IF S.index[key] = Nil
  THEN [S |-> S, err |-> TRUE, data |-> <<>>]
  ELSE LET id == S.index[key]
           S1 == [S EXCEPT !.heap[id].Metadata.LastAccessedAt = now,
                           !.heap[id].Metadata.CreatedAt = now,
                           !.accessList = updateAccessList(@, key)]
           S2 == saveMetadata(S1, key, S1.heap[id].Metadata, wm)
       IN  IF rd = "ok" /\ S2.files[key].st = "ok"
           THEN [S |-> S2, err |-> FALSE, data |-> S2.files[key].bytes]
           ELSE [S |-> S2, err |-> TRUE, data |-> <<>>]

\* ReadData(key); wm is the outcome of saveMetadata, rd of os.ReadFile.
ReadData(S, key, wm, rd) ==
  IF S.index[key] = Nil
  THEN [S |-> S, err |-> TRUE, data |-> <<>>]
  ELSE LET id == S.index[key]
           S1 == [S EXCEPT !.heap[id].Metadata.LastAccessedAt = now,
                           !.accessList = updateAccessList(@, key)]
           S2 == saveMetadata(S1, key, S1.heap[id].Metadata, wm)
       IN  IF rd = "ok" /\ S2.files[key].st = "ok"
           THEN [S |-> S2, err |-> FALSE, data |-> S2.files[key].bytes]
           ELSE [S |-> S2, err |-> TRUE, data |-> <<>>]

\* A variant that also moves the key to the most-recently-used end.
UpdateMetadata_Touch(S, key, metadata, wm) ==
  IF S.index[key] = Nil
  THEN [S |-> S, err |-> TRUE]
  ELSE [S |-> saveMetadata([S EXCEPT !.heap[S.index[key]].Metadata = metadata,
                                     !.accessList = updateAccessList(@, key)],
                           key, metadata, wm),
        err |-> Failed(wm)]

\* UpdateMetadata(key, metadata); wm is the outcome of saveMetadata.
UpdateMetadata(S, key, metadata, wm) ==
  IF S.index[key] = Nil
  THEN [S |-> S, err |-> TRUE]
  ELSE [S |-> saveMetadata([S EXCEPT !.heap[S.index[key]].Metadata = metadata],
                           key, metadata, wm),
        err |-> Failed(wm)]

\* A variant whose copy leaves the status code out.
GetMetadata_NoStatus(S, key) ==
  IF S.index[key] = Nil THEN [err |-> TRUE, m |-> ZeroMeta]
  ELSE [err |-> FALSE,
        m |-> [S.heap[S.index[key]].Metadata EXCEPT !.StatusCode =
                                                ZeroMeta.StatusCode]]

\* GetMetadata(key): a copy of the entry's metadata.
GetMetadata(S, key) ==
  IF S.index[key] = Nil THEN [err |-> TRUE, m |-> ZeroMeta]
  ELSE [err |-> FALSE, m |-> S.heap[S.index[key]].Metadata]

\* http.ParseTime on the header values the model uses.
ParseTime(s) ==
  CASE s = "d0" -> [ok |-> TRUE, t |-> 0]
    [] s = "d1" -> [ok |-> TRUE, t |-> 1]
    [] OTHER -> [ok |-> FALSE, t |-> 0]

\* A variant that compares entity tags without regard to case.
ETagMatches_IgnoreCase(stored, ifNoneMatch) ==
  LET Fold(s) == IF s = "A" THEN "a" ELSE s
  IN  Fold(stored) = Fold(ifNoneMatch)

\* entry.Metadata.Headers["ETag"] == ifNoneMatch
ETagMatches(stored, ifNoneMatch) == stored = ifNoneMatch

\* CheckConditional(key, req)
CheckConditional(S, key, ifNoneMatch, ifModifiedSince) ==
  IF S.index[key] = Nil THEN FALSE
  ELSE LET m == S.heap[S.index[key]].Metadata
           t == ParseTime(ifModifiedSince)
           lmt == ParseTime(m.Headers.LastModified)
       IN  IF Expired(m) THEN FALSE
           ELSE IF ifNoneMatch # "" /\ ETagMatches(m.Headers.ETag, ifNoneMatch)
                THEN TRUE
           ELSE IF ifModifiedSince # "" /\ t.ok /\ m.Headers.LastModified # ""
                   /\ lmt.ok /\ ~(lmt.t > t.t)
                THEN TRUE
           ELSE FALSE

\* loadIndex, as New runs it on a Cache whose index and list are empty;
\* json.Unmarshal allocates one new CacheEntry per key of the document.
loadIndex(S) ==
  IF S.doc.st # "ok" THEN S
  ELSE LET present == {k \in Keys : S.doc.entries[k] # <<>>}
           idOf == [k \in present |-> KeyPos(k)]
           S1 == [S EXCEPT
                    !.index = [k \in Keys |-> IF k \in present THEN idOf[k]
                                              ELSE Nil],
                    !.heap = [i \in ObjIds |->
                                IF \E k \in present : idOf[k] = i
                                THEN LET k == CHOOSE x \in present : idOf[x] = i
                                     IN [Key |-> k,
                                         Metadata |-> S.doc.entries[k][1]]
                                ELSE FreeObj],
                    !.accessList = S.doc.accessList]
       IN  [S1 EXCEPT !.currentBytes = SumSizes(S1, Keys)]

\* A variant that keeps the old index when the document cannot be loaded.
New_KeepMemory(S) == loadIndex(S)

\* New(dir, ttl, maxBytes) over an existing directory.
New(S) ==
  loadIndex([S EXCEPT !.index = [k \in Keys |-> Nil],
                      !.heap = [i \in ObjIds |-> FreeObj],
                      !.accessList = <<>>, !.currentBytes = 0])


\* ------------------------------------------------------------ ghost state
NoCall ==
  [op |-> "none", key |-> "", data |-> <<>>, err |-> FALSE, found |-> FALSE,
   fresh |-> FALSE, out |-> <<>>]

\* The order in which keys were last touched by Set/ReadData.
Touch(t, key) == LET Other(x) == x # key IN Append(SelectSeq(t, Other), key)

\* --------------------------------------------------- the response writer
\* http.ResponseWriter as the handler uses it: the first WriteHeader decides
\* the status line; a body write is refused for a status that allows no body
\* and after any failed write on the connection.
StatusOK == 200
StatusNotModified == 304
StatusBadRequest == 400
StatusForbidden == 403
StatusNotFound == 404
StatusInternalServerError == 500
StatusBadGateway == 502

\* maxAge is the max-age of the Cache-Control header, NoMaxAge without one.
NoMaxAge == 0 - 1

NoResponse ==
  [wroteHeader |-> FALSE, code |-> 0, headers |-> NoHeaders, body |-> <<>>,
   bodies |-> 0, failed |-> FALSE, maxAge |-> NoMaxAge]

ErrorText == <<0>>

\* Of the statuses the handler writes, only 304 allows no body.
bodyAllowed(code) == code # StatusNotModified

WriteHeader(w, code, hdrs) ==
  IF w.wroteHeader THEN w
  ELSE [w EXCEPT !.wroteHeader = TRUE, !.code = code, !.headers = hdrs]

\* w.Header().Set("Cache-Control", "public, max-age=<ttlSeconds>"): headers
\* set once the status line is out are not sent.
SetCacheControl(w, ttlSeconds) ==
  IF w.wroteHeader THEN w ELSE [w EXCEPT !.maxAge = ttlSeconds]

\* w.Write(data); connOk is whether the connection accepts the bytes.
Write(w, data, connOk) ==
  LET w1 == WriteHeader(w, StatusOK, NoHeaders)
  IN  IF Len(data) = 0 THEN [w |-> w1, err |-> FALSE]
      ELSE IF ~bodyAllowed(w1.code) THEN [w |-> w1, err |-> TRUE]
      ELSE IF w1.failed \/ ~connOk
           THEN [w |-> [w1 EXCEPT !.failed = TRUE], err |-> TRUE]
      ELSE [w |-> [w1 EXCEPT !.body = @ \o data, !.bodies = @ + 1],
            err |-> FALSE]

\* A variant of http.Error that writes nothing.
HttpError_Silent(w, code, connOk) == w

\* http.Error(w, text, code)
HttpError(w, code, connOk) ==
  Write(WriteHeader(w, code, NoHeaders), ErrorText, connOk).w

\* ------------------------------------------------------------ the handler
\* int(h.ttl.Seconds()), proxy.go 78 and 157
ttlSeconds == TTL

HKeys == {"k1"}
\* If-None-Match and If-Modified-Since as a client may send them.
ClientConditions ==
  {<<"", "">>, <<"a", "">>, <<"A", "">>, <<"", "junk">>, <<"", "d0">>,
   <<"", "d1">>, <<"A", "d1">>}

Body1 == <<7>>
Body2 == <<3, 3>>

\* What the upstream may answer: status, the allowed headers, body.
UpResponses ==
  {[status |-> StatusOK, headers |-> [ETag |-> "a", LastModified |-> "d1"],
    body |-> Body1],
   [status |-> StatusNotFound, headers |-> [ETag |-> "A", LastModified |-> ""],
    body |-> Body2],
   [status |-> StatusOK, headers |-> [ETag |-> "a", LastModified |-> "d1"],
    body |-> Oversize],
   [status |-> StatusNotModified, headers |-> NoHeaders, body |-> <<>>]}

NoUp == [status |-> 0, headers |-> NoHeaders, body |-> <<>>]

IdleReq ==
  [pc |-> "idle", key |-> "", inm |-> "", ims |-> "", entry |-> Nil,
   path |-> "", end |-> "", err |-> FALSE, sentINM |-> "", sentIMS |-> "", calls |-> 0, up |-> NoUp,
   metadata |-> ZeroMeta, data |-> <<>>, w |-> NoResponse]

\* ExtractHeaders(resp): the allowed headers that are not empty.
ExtractHeaders(up) ==
  [ETag |-> up.headers.ETag, LastModified |-> up.headers.LastModified]

\* Assign the store and the handlers' records; reclaim unreferenced objects.
Commit(S, rq) ==
  \E C \in {Collect(S, rq)} :
    /\ index' = C.index
    /\ heap' = C.heap
    /\ accessList' = C.accessList
    /\ currentBytes' = C.currentBytes
    /\ files' = C.files
    /\ metas' = C.metas
    /\ doc' = C.doc
    /\ req' = CollectReqs(S, rq)


\* ---- access control (proxy.go 207-308)
\* A header value is absent, a URL with a scheme, or a bare host name; host
\* names are sequences of labels.
NoValue == [scheme |-> FALSE, host |-> <<>>]
Example == <<"example", "com">>
SubExample == <<"sub", "example", "com">>
Evil == <<"evil", "com">>
URL(h) == [scheme |-> TRUE, host |-> h]
Bare(h) == [scheme |-> FALSE, host |-> h]

Origins == {NoValue, URL(Example), URL(SubExample), URL(Evil)}
Referers == {NoValue, URL(Example), URL(Evil)}
AllowLists == {<<>>, <<Example>>}

\* url.Parse(s).Hostname(): a string without "//" has no host.
Hostname(u) == IF u.scheme THEN u.host ELSE <<>>

normalizeOrigin(origin) == IF origin = NoValue THEN <<>> ELSE Hostname(origin)

\* Returns the host as a string, which carries no scheme.
extractDomainFromReferer(referer) ==
  IF referer = NoValue THEN NoValue ELSE Bare(Hostname(referer))

\* strings.HasSuffix(originDomain, "." + allowed)
HasDotSuffix(d, a) ==
  /\ Len(d) > Len(a)
  /\ \A i \in 1..Len(a) : d[Len(d) - Len(a) + i] = a[i]

isOriginAllowed(origin, allowed) ==
  IF Len(allowed) = 0 THEN TRUE
  ELSE IF origin = NoValue THEN FALSE
  ELSE LET originDomain == normalizeOrigin(origin)
       IN  IF originDomain = <<>> THEN FALSE
           ELSE \E i \in 1..Len(allowed) :
                  /\ allowed[i] # <<>>
                  /\ \/ originDomain = allowed[i]
                     \/ HasDotSuffix(originDomain, allowed[i])

\* A variant that lets a request without Origin and Referer pass.
checkAccessControl_AllowAbsent(allowed, origin, referer) ==
  IF Len(allowed) = 0 THEN TRUE
  ELSE IF origin = NoValue /\ referer = NoValue THEN TRUE
  ELSE origin # NoValue /\ isOriginAllowed(origin, allowed)

checkAccessControl(allowed, origin, referer) ==
  IF Len(allowed) = 0 THEN TRUE
  ELSE IF origin # NoValue /\ isOriginAllowed(origin, allowed) THEN TRUE
  ELSE IF referer # NoValue
          /\ extractDomainFromReferer(referer) # NoValue
          /\ extractDomainFromReferer(referer).host # <<>>
          /\ isOriginAllowed(extractDomainFromReferer(referer), allowed)
       THEN TRUE
  ELSE FALSE

\* The outcomes of the three writes of Set that differ in effect.
SetFaults ==
  {f \in WriteOutcomes \X WriteOutcomes \X WriteOutcomes :
     /\ Failed(f[1]) => f[2] = "ok" /\ f[3] = "ok"
     /\ Failed(f[2]) => f[3] = "ok"}

\* The storage faults explored under the handler: the artifact write of Set
\* may fail, the artifact may be unreadable.
HandlerSetFaults == {<<"ok", "ok", "ok">>, <<"fail_keep", "ok", "ok">>}
HandlerMetaWrites == {"ok"}

\* ---- ServeHTTP, one action per step between two store calls
Put(r, rec) == [req EXCEPT ![r] = rec]

\* The handler returns: end names the return statement taken.
Done(q, w, end) ==
  [IdleReq EXCEPT !.pc = "done", !.key = q.key, !.inm = q.inm, !.ims = q.ims,
                  !.path = q.path, !.err = q.err, !.calls = q.calls, !.w = w,
                  !.end = end]

\* proxy.go 35-55: OPTIONS and access control.
AcceptWith(r, method, origin, referer) ==
  /\ req[r].pc = "idle"
  /\ LET ok == checkAccessControl(allowedOrigins, origin, referer)
         q == req[r]
     IN  req' =
           IF method = "OPTIONS" /\ ok
           THEN Put(r, Done(q, WriteHeader(q.w, StatusOK, NoHeaders),
                            "options"))
           ELSE IF ~ok
           THEN Put(r, Done(q, HttpError(q.w, StatusForbidden, TRUE),
                            "forbidden"))
           ELSE Put(r, [q EXCEPT !.pc = "route"])
  /\ UNCHANGED <<index, heap, accessList, currentBytes, files, metas, doc, now,
                 allowedOrigins, mu, last, touched>>

\* A request arrives: its method and its Origin and Referer headers.
Methods == {"GET", "OPTIONS"}

Accept(r) ==
  \E method \in Methods, origin \in Origins, referer \in Referers :
    AcceptWith(r, method, origin, referer)

\* proxy.go 57-67: the hash (empty: 400), the cache key; the request's
\* conditional headers are the ones CheckConditional will read.
RouteWith(r, key, cond) ==
  /\ req[r].pc = "route"
  /\ LET q == req[r]
     IN  req' =
           IF key = ""
           THEN Put(r, Done(q, HttpError(q.w, StatusBadRequest, TRUE),
                            "bad_request"))
           ELSE Put(r, [q EXCEPT !.pc = "check", !.key = key,
                                 !.inm = cond[1], !.ims = cond[2]])
  /\ UNCHANGED <<index, heap, accessList, currentBytes, files, metas, doc, now,
                 allowedOrigins, mu, last, touched>>

Route(r) ==
  \E key \in HKeys \cup {""}, cond \in ClientConditions :
    RouteWith(r, key, cond)

\* proxy.go 69-73
ReqCheckConditional(r) ==
  /\ req[r].pc = "check"
  /\ Shared(r)
  /\ LET q == req[r]
     IN  IF CheckConditional(Store, q.key, q.inm, q.ims)
         THEN Commit(Store,
                     Put(r, Done([q EXCEPT !.path = "CLIENT_304"],
                                 WriteHeader(q.w, StatusNotModified, NoHeaders),
                                 "served")))
         ELSE Commit(Store, Put(r, [q EXCEPT !.pc = "get", !.inm = "",
                                             !.ims = ""]))
  /\ UNCHANGED <<now, allowedOrigins, last, touched>>

\* proxy.go 75-76 and 98: Get, then the branch on valid and on entry.
ReqGet(r) ==
  /\ req[r].pc = "get"
  /\ Shared(r)
  /\ LET q == req[r]
         g == Get(Store, q.key)
     IN  Commit(Store,
                Put(r, [q EXCEPT !.entry = g.entry,
                                 !.path = IF g.valid THEN "CACHE_FRESH"
                                          ELSE IF g.entry # Nil
                                          THEN "CACHE_STALE_REVALIDATE"
                                          ELSE "CACHE_ABSENT_FETCH",
                                 !.pc = IF g.valid THEN "read"
                                        ELSE IF g.entry # Nil THEN "etag"
                                        ELSE "upstream",
                                 !.calls = IF g.valid \/ g.entry # Nil THEN @
                                           ELSE @ + 1]))
  /\ UNCHANGED <<now, allowedOrigins, last, touched>>

\* proxy.go 99-101: entry.Metadata.Headers["ETag"], read without the lock.
ReqReadETag(r) ==
  /\ req[r].pc = "etag"
  /\ LET q == req[r]
     IN  Commit(Store,
                Put(r, [q EXCEPT !.sentINM = heap[q.entry].Metadata.Headers.ETag,
                                 !.pc = "lastmod"]))
  /\ UNCHANGED <<now, allowedOrigins, mu, last, touched>>

\* proxy.go 102-108: entry.Metadata.Headers["Last-Modified"], then client.Do.
ReqReadLastModified(r) ==
  /\ req[r].pc = "lastmod"
  /\ LET q == req[r]
     IN  Commit(Store,
                Put(r, [q EXCEPT
                          !.sentIMS =
                             heap[q.entry].Metadata.Headers.LastModified,
                          !.calls = @ + 1,
                          !.pc = "upstream"]))
  /\ UNCHANGED <<now, allowedOrigins, mu, last, touched>>


\* A variant that drops the entry of the key when the upstream call fails.
UpstreamFailed_DropEntry(S, q) ==
  [S |-> [S EXCEPT !.index[q.key] = Nil],
   q |-> Done(q, HttpError(q.w, StatusBadGateway, TRUE), "upstream_failed")]

\* proxy.go 109-114: client.Do returned an error (transport failure or the
\* client's timeout): 502, and the handler returns without a store call.
UpstreamFailed(S, q) ==
  [S |-> S,
   q |-> Done(q, HttpError(q.w, StatusBadGateway, TRUE), "upstream_failed")]

\* proxy.go 108-149: the upstream answers (or the transport fails); on a
\* 304 for a stored entry the handler goes on to refresh it, otherwise it
\* reads the body and builds the metadata record.
UpstreamFails(r) ==
  /\ req[r].pc = "upstream"
  /\ \E res \in {UpstreamFailed(Store, req[r])} :
       Commit(res.S, Put(r, res.q))
  /\ UNCHANGED <<now, allowedOrigins, mu, last, touched>>

UpstreamReplyWith(r, up, bodyOk) ==
  /\ req[r].pc = "upstream"
  /\ LET q == req[r]
     IN  IF up.status = StatusNotModified /\ q.entry # Nil
         THEN bodyOk
              /\ Commit(Store, Put(r, [q EXCEPT !.up = up, !.pc = "copy",
                                                !.sentINM = "",
                                                !.sentIMS = ""]))
         ELSE IF ~bodyOk
         THEN Commit(Store,
                     Put(r, Done(q, HttpError(q.w, StatusInternalServerError,
                                              TRUE), "body_failed")))
         ELSE Commit(Store,
                     Put(r, [q EXCEPT
                               !.up = up, !.data = up.body,
                               !.entry = Nil,
                               !.sentINM = "", !.sentIMS = "",
                               !.metadata =
                                  [CreatedAt |-> now,
                                   LastAccessedAt |-> now,
                                   Headers |-> ExtractHeaders(up),
                                   StatusCode |-> up.status,
                                   Size |-> 0],
                               !.pc = "set"]))
  /\ UNCHANGED <<now, allowedOrigins, mu, last, touched>>

UpstreamReply(r) ==
  \/ UpstreamFails(r)
  \/ \E up \in UpResponses, bodyOk \in BOOLEAN :
       UpstreamReplyWith(r, up, bodyOk)

\* proxy.go 118: metadata := entry.Metadata, a copy of several words made
\* without the lock.  It starts here ...
ReqCopyBegin(r) ==
  /\ req[r].pc = "copy"
  /\ LET q == req[r]
     IN  Commit(Store, Put(r, [q EXCEPT !.metadata = heap[q.entry].Metadata,
                                        !.pc = "copy2"]))
  /\ UNCHANGED <<now, allowedOrigins, mu, last, touched>>

\* ... and ends here: a field another goroutine wrote in between is read
\* old or new.  proxy.go 119-120 then stamp the copy with time.Now().
ReqCopyEnd(r) ==
  /\ req[r].pc = "copy2"
  /\ LET q == req[r]
         cur == heap[q.entry].Metadata
     IN  \E h \in {q.metadata.Headers, cur.Headers},
            c \in {q.metadata.StatusCode, cur.StatusCode},
            z \in {q.metadata.Size, cur.Size} :
           Commit(Store,
                  Put(r, [q EXCEPT !.metadata =
                                      [CreatedAt |-> now, LastAccessedAt |-> now,
                                       Headers |-> h, StatusCode |-> c,
                                       Size |-> z],
                                   !.entry = Nil,
                                   !.pc = "update"]))
  /\ UNCHANGED <<now, allowedOrigins, mu, last, touched>>

\* proxy.go 121-123
ReqUpdateMetadata(r) ==
  /\ req[r].pc = "update"
  /\ Exclusive(r)
  /\ \E wm \in HandlerMetaWrites :
       \E q \in {req[r]} :
         \E res \in {UpdateMetadata(Store, q.key, q.metadata, wm)} :
           Commit(res.S, Put(r, [q EXCEPT !.err = res.err, !.pc = "read"]))
  /\ UNCHANGED <<now, allowedOrigins, last, touched>>

\* WriteResponse, cache.go 313-316: ReadData.  An error makes the handler
\* answer 500 (proxy.go 79-84, 126-131).
ReqReadDataWith(r, wm, rd) ==
  /\ req[r].pc = "read"
  /\ Exclusive(r)
  /\ \E q \in {req[r]} :
       \E res \in {ReadData(Store, q.key, wm, rd)} :
         /\ IF res.err
            THEN Commit(res.S,
                        Put(r, Done(q, HttpError(q.w,
                                                 StatusInternalServerError,
                                                 TRUE), "cache_failed")))
            ELSE Commit(res.S, Put(r, [q EXCEPT !.data = res.data,
                                                   !.entry = Nil,
                                                   !.pc = "meta"]))
         /\ touched' = IF index[q.key] # Nil THEN Touch(touched, q.key)
                       ELSE touched
  /\ UNCHANGED <<now, allowedOrigins, last>>

ReqReadData(r) ==
  \E wm \in HandlerMetaWrites, rd \in {"ok", "fail"} :
    ReqReadDataWith(r, wm, rd)

\* WriteResponse, cache.go 318-331: GetMetadata, the headers, the status
\* line, the body; an error makes the handler call http.Error.
ReqGetMetadataWith(r, connOk) ==
  /\ req[r].pc = "meta"
  /\ Shared(r)
  /\ LET q == req[r]
           g == GetMetadata(Store, q.key)
           wr == Write(WriteHeader(SetCacheControl(q.w, ttlSeconds),
                                   g.m.StatusCode, g.m.Headers),
                       q.data, connOk)
       IN  IF g.err
           THEN Commit(Store,
                       Put(r, Done(q, HttpError(q.w, StatusInternalServerError,
                                                TRUE), "cache_failed")))
           ELSE IF wr.err
           THEN Commit(Store,
                       Put(r, Done(q,
                                   HttpError(wr.w, StatusInternalServerError,
                                             connOk), "write_failed")))
           ELSE Commit(Store, Put(r, Done(q, wr.w, "served")))
  /\ UNCHANGED <<now, allowedOrigins, last, touched>>

ReqGetMetadata(r) == \E connOk \in BOOLEAN : ReqGetMetadataWith(r, connOk)

\* A variant that answers 500 when Set returned an error.
FetchResponse_FailOnSetError(q, setErr, connOk) ==
  IF setErr THEN HttpError(q.w, StatusInternalServerError, connOk)
  ELSE Write(WriteHeader(q.w, q.up.status, q.metadata.Headers), q.data,
             connOk).w

\* proxy.go 151-161: the error of Set is logged and dropped; the headers of
\* the metadata record, the upstream status and the fetched bytes are
\* written, and the error of w.Write is dropped.
FetchResponse(q, setErr, connOk) ==
  Write(WriteHeader(SetCacheControl(q.w, ttlSeconds), q.up.status,
                    q.metadata.Headers),
        q.data, connOk).w

\* proxy.go 151-163: Set, then the response.
ReqSetWith(r, f, connOk) ==
  /\ req[r].pc = "set"
  /\ Exclusive(r)
  /\ \E q \in {req[r]} :
       \E res \in {Set(Store, q.key, q.data, q.metadata, f[1], f[2], f[3])} :
         /\ Commit(res.S, Put(r, Done([q EXCEPT !.err = res.err],
                                      FetchResponse(q, res.err, connOk),
                                      "served")))
         /\ touched' = IF res.err THEN touched ELSE Touch(touched, q.key)
  /\ UNCHANGED <<now, allowedOrigins, last>>

ReqSet(r) ==
  \E f \in HandlerSetFaults, connOk \in BOOLEAN : ReqSetWith(r, f, connOk)

\* The goroutine ends; another request may be accepted.
Finish(r) ==
  /\ req[r].pc = "done"
  /\ req' = Put(r, IdleReq)
  /\ UNCHANGED <<index, heap, accessList, currentBytes, files, metas, doc, now,
                 allowedOrigins, mu, last, touched>>

Tick ==
  /\ now < MaxTime
  /\ now' = now + 1
  /\ last' = NoCall
  /\ UNCHANGED <<index, heap, accessList, currentBytes, files, metas, doc, req,
                 allowedOrigins, mu, touched>>

Init ==
  /\ index = EmptyStore.index
  /\ heap = EmptyStore.heap
  /\ accessList = <<>>
  /\ currentBytes = 0
  /\ files = EmptyStore.files
  /\ metas = EmptyStore.metas
  /\ doc = NoDoc
  /\ now = 0
  /\ req = [r \in Reqs |-> IdleReq]
  /\ allowedOrigins = <<Example>>
  /\ mu = Unlocked
  /\ last = NoCall
  /\ touched = <<>>

Handle(r) ==
  \/ Accept(r)
  \/ Route(r)
  \/ ReqCheckConditional(r)
  \/ ReqGet(r)
  \/ ReqReadETag(r)
  \/ ReqReadLastModified(r)
  \/ UpstreamReply(r)
  \/ ReqCopyBegin(r)
  \/ ReqCopyEnd(r)
  \/ ReqUpdateMetadata(r)
  \/ ReqReadData(r)
  \/ ReqGetMetadata(r)
  \/ ReqSet(r)
  \/ Finish(r)

Next == Tick \/ \E r \in Reqs : Handle(r)

Spec == Init /\ [][Next]_vars


\* ------------------------------------------ direct callers of the store
\* The calls cache_test.go makes on a Cache, one at a time, with storage
\* that does not fail; last records what the call returned.
StoreSetFaults == {<<"ok", "ok", "ok">>}
StoreMetaWrites == {"ok"}
StoreHeaders == [ETag |-> "a", LastModified |-> "d1"]
\* The goroutine of the direct caller.
Caller == Cardinality(Reqs) + 1

CallerMetadata(createdAt) ==
  [CreatedAt |-> createdAt, LastAccessedAt |-> now, Headers |-> StoreHeaders,
   StatusCode |-> StatusOK, Size |-> 0]

CallSetWith(key, faults) ==
  \E data \in StoreData, createdAt \in {now}, f \in faults :
    \E res \in {Set(Store, key, data, CallerMetadata(createdAt), f[1], f[2],
                     f[3])} :
        /\ Exclusive(Caller)
        /\ Commit(res.S, req)
        /\ last' = [NoCall EXCEPT !.op = "Set", !.key = key, !.data = data,
                                  !.err = res.err]
        /\ touched' = IF res.err THEN touched ELSE Touch(touched, key)
        /\ UNCHANGED <<now, allowedOrigins>>

CallSet(key) == CallSetWith(key, StoreSetFaults)

CallGet(key) ==
  LET g == Get(Store, key)
  IN  /\ Shared(Caller)
      /\ last' = [NoCall EXCEPT !.op = "Get", !.key = key,
                                !.found = (g.entry # Nil), !.fresh = g.valid]
      /\ UNCHANGED <<index, heap, accessList, currentBytes, files, metas, doc,
                     now, req, allowedOrigins, touched>>

CallReadData(key) ==
  \E wm \in StoreMetaWrites, rd \in {"ok"} :
    \E res \in {ReadData(Store, key, wm, rd)} :
        /\ Exclusive(Caller)
        /\ Commit(res.S, req)
        /\ last' = [NoCall EXCEPT !.op = "ReadData", !.key = key,
                                  !.err = res.err, !.out = res.data]
        /\ touched' = IF index[key] # Nil THEN Touch(touched, key) ELSE touched
        /\ UNCHANGED <<now, allowedOrigins>>

\* proxy.go 118-121 run by one caller alone.
CallUpdateMetadata(key) ==
  \E wm \in StoreMetaWrites :
    \E res \in {UpdateMetadata(Store, key,
                                [GetMetadata(Store, key).m
                                   EXCEPT !.CreatedAt = now,
                                          !.LastAccessedAt = now], wm)} :
        /\ Exclusive(Caller)
        /\ Commit(res.S, req)
        /\ last' = [NoCall EXCEPT !.op = "UpdateMetadata", !.key = key,
                                  !.err = res.err]
        /\ UNCHANGED <<now, allowedOrigins, touched>>

\* The process restarts: New over the same directory.
Restart ==
  \E S \in {New(Store)} :
      /\ Commit(S, req)
      /\ last' = [NoCall EXCEPT !.op = "New"]
      /\ touched' = S.accessList
      /\ mu' = Unlocked
      /\ UNCHANGED <<now, allowedOrigins>>

\* TestCheckConditional: a request carrying a matching If-None-Match.
CallCheckConditional(key) ==
  \E cond \in {<<"a", "">>} :
    /\ Shared(Caller)
    /\ last' = [NoCall EXCEPT !.op = "CheckConditional", !.key = key,
                              !.found = CheckConditional(Store, key, cond[1],
                                                         cond[2])]
    /\ UNCHANGED <<index, heap, accessList, currentBytes, files, metas, doc,
                   now, req, allowedOrigins, touched>>

Call(key) ==
  \/ CallSet(key)
  \/ CallGet(key)
  \/ CallReadData(key)
  \/ CallCheckConditional(key)

NextStore == Tick \/ \E key \in Keys : Call(key)

SpecStore == Init /\ [][NextStore]_vars

\* ------------------------------------------- the store across restarts
\* TestCachePersistence: the same calls, the metadata refresh the handler
\* makes after a 304, and the process restarting between any two calls.
PersistKeys == {"k1", "k2"}

\* Storage may fail under a Set: the write of index.json may leave a
\* truncated document; Set logs the error and returns nil.
PersistSetFaults == {<<"ok", "ok", "ok">>, <<"ok", "ok", "fail_trunc">>}

CallPersist(key) ==
  \/ CallSetWith(key, PersistSetFaults)
  \/ CallGet(key)
  \/ CallReadData(key)
  \/ CallUpdateMetadata(key)

NextPersist == Tick \/ Restart \/ \E key \in PersistKeys : CallPersist(key)

SpecPersist == Init /\ [][NextPersist]_vars

\* -------------------------------------------------------------- GenerateKey
\* The query parameters the handler passes on (extractQueryParams), in the
\* order sort.Strings puts them, and values a client may give them.
QueryNames == <<"d", "r", "s">>
QueryValues == {"1", "1?r=1"}
Paths == {"/avatar/a", "/avatar/b"}

\* A map[string]string: a function from the names present to their values.
Queries ==
  UNION {[D -> QueryValues] :
           D \in SUBSET {QueryNames[i] : i \in 1..Len(QueryNames)}}

\* The orders in which `for k := range query` may visit the names.
Orders(D) ==
  {s \in [1..Cardinality(D) -> D] :
     \A i, j \in 1..Cardinality(D) : i # j => s[i] # s[j]}

\* Whether string a sorts before string b.
Less(a, b) ==
  \E i, j \in 1..Len(QueryNames) :
    QueryNames[i] = a /\ QueryNames[j] = b /\ i < j

\* sort.Strings(keys): the least element first, then the rest sorted.
RECURSIVE SortStrings(_)
SortStrings(keys) ==
  IF Len(keys) <= 1 THEN keys
  ELSE LET m == CHOOSE i \in 1..Len(keys) :
                  \A j \in 1..Len(keys) : ~Less(keys[j], keys[i])
       IN  <<keys[m]>> \o SortStrings(RemoveAt(keys, m))

\* strings.Join(parts, sep)
RECURSIVE Join(_, _)
Join(parts, sep) ==
  IF Len(parts) = 0 THEN ""
  ELSE IF Len(parts) = 1 THEN parts[1]
  ELSE parts[1] \o sep \o Join(Tail(parts), sep)

\* hex.EncodeToString(sha256.Sum256(s)): a digest taken as free of
\* collisions, so that two keys are equal iff the hashed strings are.
Sha256Hex(s) == <<"sha256", s>>

\* The string GenerateKey hashes when it visits the names in the order
\* keys: the path, then "name=value" for each name, joined by "?".
FullURL(path, query, keys) ==
  Join(<<path>> \o [i \in 1..Len(keys) |-> keys[i] \o "=" \o query[keys[i]]],
       "?")

\* A variant that does not sort the names.
GenerateKey_Unsorted(path, query, order) ==
  Sha256Hex(FullURL(path, query, order))

\* GenerateKey(path, query); order is the order in which the range over the
\* map yields the names.
GenerateKey(path, query, order) ==
  Sha256Hex(FullURL(path, query, SortStrings(order)))

\* TestGenerateKey: GenerateKey called on a Cache, whatever it holds.
CallGenerateKey ==
  \E path \in Paths, query \in Queries :
    \E order \in Orders(DOMAIN query) :
      /\ last' = [NoCall EXCEPT !.op = "GenerateKey",
                                !.data = <<path, query>>,
                                !.out = GenerateKey(path, query, order)]
      /\ UNCHANGED <<index, heap, accessList, currentBytes, files, metas, doc,
                     now, req, allowedOrigins, mu, touched>>

NextKey == CallGenerateKey \/ \E key \in PersistKeys : CallSet(key)

SpecKey == Init /\ [][NextKey]_vars

\* ------------------------------------------- one request, any allow-list
\* The handler serving one request at a time, under each of the allow-lists
\* cfg.AllowedOrigins may hold (config.go 36-54): none, or example.com.
InitAccess ==
  /\ index = EmptyStore.index
  /\ heap = EmptyStore.heap
  /\ accessList = <<>>
  /\ currentBytes = 0
  /\ files = EmptyStore.files
  /\ metas = EmptyStore.metas
  /\ doc = NoDoc
  /\ now = 0
  /\ req = [r \in Reqs |-> IdleReq]
  /\ allowedOrigins \in AllowLists
  /\ mu = Unlocked
  /\ last = NoCall
  /\ touched = <<>>

NextAccess == Tick \/ Handle(1)

SpecAccess == InitAccess /\ [][NextAccess]_vars

\* ------------------------------------------------- the store, failing writes
\* Set whose artifact write or metadata write may fail, with Get and
\* ReadData.
FaultySetFaults ==
  {<<"ok", "ok", "ok">>, <<"fail_trunc", "ok", "ok">>,
   <<"ok", "fail_keep", "ok">>}

CallFaulty(key) ==
  \/ CallSetWith(key, FaultySetFaults)
  \/ CallGet(key)
  \/ CallReadData(key)

NextFaulty == Tick \/ \E key \in PersistKeys : CallFaulty(key)

SpecFaulty == Init /\ [][NextFaulty]_vars

\* ------------------------------------- the server, two keys, and restarts
\* Requests for two keys that go well (allowed origin, no conditional
\* headers, upstream answering 200, 404 or 304, storage and connection not
\* failing), and the process being stopped and started again over the same
\* directory: the requests in flight are gone, New reloads the index document.
\* The time is one at which the entry of the first key, stored at time 0
\* from the upstream 404, has expired.
ReloadResponses == {up \in UpResponses : Len(up.body) <= MaxBytes}

StoredAtStart ==
  LET up == CHOOSE u \in UpResponses : u.status = StatusNotFound
  IN  Set(EmptyStore, "k1", up.body,
          [CreatedAt |-> 0, LastAccessedAt |-> 0,
           Headers |-> ExtractHeaders(up), StatusCode |-> up.status,
           Size |-> 0], "ok", "ok", "ok").S

InitReload ==
  /\ req = [r \in Reqs |-> IdleReq]
  /\ index = StoredAtStart.index
  /\ heap = StoredAtStart.heap
  /\ accessList = StoredAtStart.accessList
  /\ currentBytes = StoredAtStart.currentBytes
  /\ files = StoredAtStart.files
  /\ metas = StoredAtStart.metas
  /\ doc = StoredAtStart.doc
  /\ now = MaxTime
  /\ allowedOrigins = <<Example>>
  /\ mu = Unlocked
  /\ last = NoCall
  /\ touched = <<"k1">>

HandleTwoKeys(r) ==
  \/ AcceptWith(r, "GET", URL(Example), NoValue)
  \/ \E key \in PersistKeys : RouteWith(r, key, <<"", "">>)
  \/ ReqCheckConditional(r)
  \/ ReqGet(r)
  \/ ReqReadETag(r)
  \/ ReqReadLastModified(r)
  \/ \E up \in ReloadResponses : UpstreamReplyWith(r, up, TRUE)
  \/ ReqCopyBegin(r)
  \/ ReqCopyEnd(r)
  \/ ReqUpdateMetadata(r)
  \/ ReqReadDataWith(r, "ok", "ok")
  \/ ReqGetMetadataWith(r, TRUE)
  \/ ReqSetWith(r, <<"ok", "ok", "ok">>, TRUE)
  \/ Finish(r)

RestartServer ==
  \E S \in {New(Store)} :
      /\ Commit(S, [r \in Reqs |-> IdleReq])
      /\ last' = [NoCall EXCEPT !.op = "New"]
      /\ touched' = S.accessList
      /\ mu' = Unlocked
      /\ UNCHANGED <<now, allowedOrigins>>

NextReload == RestartServer \/ \E r \in Reqs : HandleTwoKeys(r)

SpecReload == InitReload /\ [][NextReload]_vars

\* ------------------------------------------------------------------ claims
\* C1: in every state in which no goroutine holds the store's lock, the byte
\* total currentBytes equals the sum of Metadata.Size over the entries of
\* the index.
C1_ByteTotalIsSumOfSizes == currentBytes = SumSizes(Store, Keys)

\* A stale revalidation has written its copied metadata into the index.
C1_StaleRevalidationStored ==
  \E r \in Reqs : /\ req[r].pc \in {"read", "meta", "done"}
                  /\ req[r].path = "CACHE_STALE_REVALIDATE"
                  /\ req[r].up.status = StatusNotModified
                  /\ index[req[r].key] # Nil

\* a was last touched before b.
Precedes(t, a, b) ==
  \E i, j \in 1..Len(t) : t[i] = a /\ t[j] = b /\ i < j

SizeOf(k) == heap[index[k]].Metadata.Size

\* C2: eviction is strictly least-recently-used, and recency is refreshed by
\* Set and ReadData only: a key a step removes from the index was last
\* touched (by Set or ReadData) before every key the step leaves in it; Get
\* and CheckConditional leave the access order alone; and with two entries
\* a, b that fill the ceiling, a touched before b, inserting a third key of
\* the same size evicts a and keeps b and the new key.
C2_EvictionIsLRU ==
  [][ /\ \A e, s \in Keys :
           (index[e] # Nil /\ index'[e] = Nil /\ index'[s] # Nil)
             => Precedes(touched', e, s)
      /\ last'.op \in {"Get", "CheckConditional"}
           => accessList' = accessList /\ index' = index
      /\ \A a, b, c \in Keys :
           ( /\ Cardinality({a, b, c}) = 3
             /\ index[a] # Nil /\ index[b] # Nil /\ index[c] = Nil
             /\ SizeOf(a) = SizeOf(b) /\ 2 * SizeOf(a) <= MaxBytes
             /\ 3 * SizeOf(a) > MaxBytes
             /\ Precedes(touched, a, b)
             /\ last'.op = "Set" /\ last'.key = c
             /\ Len(last'.data) = SizeOf(a) /\ ~last'.err )
             => index'[a] = Nil /\ index'[b] # Nil /\ index'[c] # Nil
    ]_vars

\* k1 was read after it was stored, so the insertion of k3 evicted k2.
C2_ReadKeySurvives ==
  /\ last.op = "Set" /\ last.key = "k3"
  /\ index["k1"] # Nil /\ index["k2"] = Nil /\ index["k3"] # Nil
  /\ SizeOf("k1") = 1 /\ SizeOf("k3") = 1
  /\ heap[index["k1"]].Metadata.LastAccessedAt
       > heap[index["k1"]].Metadata.CreatedAt
  /\ touched = <<"k2", "k1", "k3">>

\* C3: when Set(key, data, metadata) with metadata.CreatedAt = now returns
\* without error and nothing intervenes, Get(key) returns the entry as fresh
\* and ReadData(key) returns exactly data, whatever the size of data.
C3_SetThenGetAndReadData ==
  [][ (last.op = "Set" /\ ~last.err) =>
        /\ (last'.op = "Get" /\ last'.key = last.key)
             => last'.found /\ last'.fresh
        /\ (last'.op = "ReadData" /\ last'.key = last.key)
             => ~last'.err /\ last'.out = last.data
    ]_vars

\* C4: Get(key) returns not-found iff the key is absent from the index; for
\* a present key it returns the entry, fresh iff now - CreatedAt <= ttl (an
\* age equal to ttl is still fresh); Get removes and hides nothing.
C4_GetFreshIffWithinTtl ==
  [][ last'.op = "Get" =>
        LET k == last'.key
        IN  /\ last'.found <=> index[k] # Nil
            /\ last'.fresh <=>
                 (index[k] # Nil
                    /\ now - heap[index[k]].Metadata.CreatedAt <= TTL)
            /\ index' = index /\ heap' = heap /\ accessList' = accessList
            /\ currentBytes' = currentBytes /\ files' = files
            /\ metas' = metas /\ doc' = doc
    ]_vars

\* Get found an entry whose age is exactly ttl, and reported it fresh.
C4_FreshAtExactlyTtl ==
  /\ last.op = "Get" /\ last.found /\ last.fresh
  /\ now - heap[index[last.key]].Metadata.CreatedAt = TTL

\* The client's validators match the entry stored for the request's key.
ValidatorsMatch(q) ==
  /\ index[q.key] # Nil
  /\ LET m == heap[index[q.key]].Metadata
         since == ParseTime(q.ims)
         modified == ParseTime(m.Headers.LastModified)
     IN  /\ now - m.CreatedAt <= TTL
         /\ \/ q.inm # "" /\ q.inm = m.Headers.ETag
            \/ /\ since.ok /\ modified.ok
               /\ modified.t <= since.t

\* C5: a request is answered 304 from the client's own validators
\* (CLIENT_304) iff its key has an entry within TTL and the If-None-Match
\* value equals the stored ETag, case and all, or the stored Last-Modified
\* is not after the If-Modified-Since time; that response has no body, no
\* upstream call is made, the artifact is not read and the store is
\* unchanged.  A stale or absent entry never yields CLIENT_304.
C5_Client304IffFreshAndMatching ==
  [][ \A r \in Reqs :
        (req[r].pc = "check" /\ req'[r].pc # "check") =>
          /\ req'[r].path = "CLIENT_304" <=> ValidatorsMatch(req[r])
          /\ req'[r].path = "CLIENT_304" =>
               /\ req'[r].pc = "done"
               /\ req'[r].w.code = StatusNotModified
               /\ req'[r].w.body = <<>> /\ req'[r].w.bodies = 0
               /\ req'[r].calls = 0
               /\ index' = index /\ heap' = heap /\ accessList' = accessList
               /\ currentBytes' = currentBytes /\ files' = files
               /\ metas' = metas /\ doc' = doc /\ touched' = touched
          /\ req'[r].path # "CLIENT_304" => req'[r].pc = "get"
    ]_vars

\* A 304 answered because If-Modified-Since is not before the stored date.
C5_Client304BySince ==
  \E r \in Reqs : /\ req[r].pc = "done" /\ req[r].path = "CLIENT_304"
                  /\ req[r].inm = "" /\ req[r].ims = "d1"
                  /\ req[r].w.code = StatusNotModified

\* C6: a request that finds a stale entry sends the stored ETag and
\* Last-Modified upstream as validators; when upstream answers 304 the
\* artifact bytes stay as they are, UpdateMetadata sets the entry's
\* CreatedAt and LastAccessedAt to the handler's time.Now(), a Get right
\* after it reports the entry fresh, and the response carries the stored
\* bytes, status and headers.
C6_RevalidationRefreshesAndServesStored ==
  [][ \A r \in Reqs :
        LET q == req[r]
            k == q.key
        IN  q.path = "CACHE_STALE_REVALIDATE" =>
              /\ (q.pc = "etag" /\ req'[r].pc = "lastmod")
                   => req'[r].sentINM = heap[q.entry].Metadata.Headers.ETag
              /\ (q.pc = "lastmod" /\ req'[r].pc = "upstream")
                   => /\ req'[r].sentIMS =
                           heap[q.entry].Metadata.Headers.LastModified
                      /\ req'[r].calls = 1
              /\ (q.pc \in {"copy", "copy2", "update", "read", "meta"}
                    /\ req'[r].pc # q.pc)
                   => files'[k] = files[k]
              /\ (q.pc = "update" /\ req'[r].pc # "update")
                   => /\ index'[k] # Nil
                      /\ heap'[index'[k]].Metadata.CreatedAt
                           = q.metadata.CreatedAt
                      /\ heap'[index'[k]].Metadata.LastAccessedAt
                           = q.metadata.LastAccessedAt
                      /\ q.metadata.CreatedAt = now
                           => now' - heap'[index'[k]].Metadata.CreatedAt <= TTL
              /\ (q.pc \in {"read", "meta"} /\ req'[r].pc = "done")
                   => /\ index[k] # Nil /\ index'[k] # Nil
                      /\ req'[r].end \in {"served", "write_failed"}
                           => /\ req'[r].w.code
                                   = heap'[index'[k]].Metadata.StatusCode
                              /\ req'[r].w.headers
                                   = heap'[index'[k]].Metadata.Headers
                      /\ req'[r].end = "served"
                           => req'[r].w.body = files'[k].bytes
    ]_vars

\* A revalidation that ran alone: upstream was asked once and the stored
\* bytes were served.
C6_RevalidatedAndServed ==
  \E r \in Reqs : /\ req[r].pc = "done" /\ req[r].end = "served"
                  /\ req[r].path = "CACHE_STALE_REVALIDATE"
                  /\ req[r].calls = 1
                  /\ index[req[r].key] # Nil
                  /\ heap[index[req[r].key]].Metadata.CreatedAt = now
                  /\ now > TTL
                  /\ req[r].w.body = files[req[r].key].bytes
                  /\ req[r].w.body = Body1
                  /\ \A o \in Reqs \ {r} : req[o].pc = "idle"

\* C7: when the entry is absent, or stale and upstream answers anything but
\* 304, the handler reads the whole body, builds a metadata record with
\* CreatedAt = now, the upstream status and the allowed headers, calls Set,
\* and answers with the fetched bytes and the upstream status; an error of
\* Set leaves that response as it is.
C7_FetchStoresAndServesFetched ==
  [][ \A r \in Reqs :
        LET q == req[r]
            n == req'[r]
        IN  /\ (q.pc = "upstream" /\ n.pc = "set") =>
                 /\ q.path \in {"CACHE_ABSENT_FETCH", "CACHE_STALE_REVALIDATE"}
                 /\ q.entry = Nil \/ n.up.status # StatusNotModified
                 /\ n.data = n.up.body
                 /\ n.metadata.CreatedAt = now
                 /\ n.metadata.StatusCode = n.up.status
                 /\ n.metadata.Headers.ETag = n.up.headers.ETag
                 /\ n.metadata.Headers.LastModified
                      = n.up.headers.LastModified
            /\ (q.pc = "set" /\ n.pc # "set") =>
                 /\ n.pc = "done" /\ n.end = "served"
                 /\ n.w.code = q.up.status
                 /\ n.w.headers = q.up.headers
                 /\ ~n.w.failed => n.w.body = q.up.body
                 /\ ~n.err => /\ touched' = Touch(touched, q.key)
                              /\ doc'.st = "ok"
                              /\ doc'.accessList = accessList'
                 /\ n.err => /\ index' = index /\ accessList' = accessList
                             /\ currentBytes' = currentBytes
    ]_vars

\* Set failed and the client still got the fetched bytes and status.
C7_ServedThoughSetFailed ==
  \E r \in Reqs : /\ req[r].pc = "done" /\ req[r].end = "served"
                  /\ req[r].path = "CACHE_ABSENT_FETCH"
                  /\ req[r].err
                  /\ req[r].w.code = StatusNotFound
                  /\ req[r].w.body = Body2

\* How far a request is from the end of ServeHTTP.
StepsLeft(pc) ==
  CASE pc = "route" -> 11 [] pc = "check" -> 10 [] pc = "get" -> 9
    [] pc = "etag" -> 8 [] pc = "lastmod" -> 7 [] pc = "upstream" -> 6
    [] pc = "copy" -> 5 [] pc = "copy2" -> 4 [] pc = "update" -> 3
    [] pc = "set" -> 3 [] pc = "read" -> 2 [] pc = "meta" -> 1
    [] OTHER -> 0

\* C8: every request that enters the handler ends with exactly one response
\* (one status line, at most one body): a request that has not returned has
\* written nothing and stands at a step of ServeHTTP, every step it takes
\* brings it nearer to its return, and at its return one status line and
\* at most one body have been written, whatever the other requests do.
C8_OneResponsePerRequest ==
  [][ \A r \in Reqs :
        LET q == req[r]
            n == req'[r]
        IN  /\ q.pc \notin {"idle", "done"} =>
                 /\ ~q.w.wroteHeader /\ q.w.bodies = 0
                 /\ StepsLeft(q.pc) > 0
                 /\ n.pc # q.pc => StepsLeft(n.pc) < StepsLeft(q.pc)
            /\ n.pc = "done" =>
                 /\ n.w.wroteHeader
                 /\ n.w.bodies <= 1
                 /\ n.w.bodies = 1 => bodyAllowed(n.w.code)
                 /\ n.end \in {"options", "forbidden", "bad_request",
                               "served", "upstream_failed", "body_failed",
                               "cache_failed", "write_failed"}
            /\ q.pc = "done" => n.pc = "idle" \/ n = q
    ]_vars

\* A request whose WriteResponse failed after the status line was written
\* returned with that one status line and no body.
C8_WriteFailedAfterStatus ==
  \E r \in Reqs : /\ req[r].pc = "done" /\ req[r].end = "write_failed"
                  /\ req[r].w.wroteHeader /\ req[r].w.code = StatusOK
                  /\ req[r].w.bodies = 0
                  /\ req[3 - r].pc \notin {"idle", "done"}

\* C9: Set calls on one key exclude one another, and when the last of them
\* has returned, the index entry of the key, its artifact file and its
\* metadata file all belong to the payload of that last call: the file holds
\* its bytes, Size is its length, and the byte total counts it once.
C9_LastSetWinsWhole ==
  (last.op = "Set" /\ ~last.err) =>
     /\ index[last.key] # Nil
     /\ files[last.key] = [st |-> "ok", bytes |-> last.data]
     /\ heap[index[last.key]].Metadata.Size = Len(last.data)
     /\ metas[last.key] = [st |-> "ok", m |-> heap[index[last.key]].Metadata]
     /\ currentBytes = SumSizes(Store, Keys)
     /\ Cardinality(Positions(accessList, last.key)) = 1

\* A second Set on a key replaced a payload of another size.
C9_SecondSetReplacedFirst ==
  /\ last.op = "Set" /\ last.key = "k1" /\ last.data = SmallB
  /\ index["k1"] # Nil /\ SizeOf("k1") = MaxBytes
  /\ heap[index["k1"]].Metadata.CreatedAt > 0
  /\ currentBytes = MaxBytes

\* C10: per key, a Set that has completed is seen by the Get or ReadData
\* that begins next: Get returns the entry that Set wrote and ReadData
\* returns its data.
C10_SetVisibleToNextRead ==
  [][ (last.op = "Set" /\ ~last.err) =>
        /\ (last'.op = "Get" /\ last'.key = last.key)
             => /\ last'.found
                /\ index'[last.key] # Nil
                /\ heap'[index'[last.key]].Metadata.Size = Len(last.data)
                /\ heap'[index'[last.key]].Metadata.CreatedAt = now
        /\ (last'.op = "ReadData" /\ last'.key = last.key)
             => last'.out = last.data
    ]_vars

\* C11: no request holds the store's lock, shared or exclusive, while its
\* upstream call is in flight; the lock is held only inside the store's
\* methods, so whenever a request waits for upstream the lock is free and
\* any other request's Get, CheckConditional, GetMetadata or ReadData can
\* take it.
C11_NoLockDuringUpstream ==
  /\ \A g \in Reqs \cup {Caller} : ~Holds(mu, g)
  /\ \A r \in Reqs :
       req[r].pc = "upstream" => /\ ~Holds(mu, r)
                                 /\ CanRLock(mu) /\ CanLock(mu)

\* While one request still waits for upstream with the entry its Get
\* returned, the other stored a new entry and then served a later request
\* from the cache.
C11_ReadWhileUpstreamInFlight ==
  \E r \in Reqs :
    /\ req[r].pc = "upstream" /\ req[r].entry # Nil
    /\ index[req[r].key] # Nil /\ index[req[r].key] # req[r].entry
    /\ \E o \in Reqs \ {r} :
         /\ req[o].pc = "done" /\ req[o].end = "served"
         /\ req[o].path = "CACHE_FRESH" /\ req[o].key = req[r].key

\* C12: on a store started empty with byte ceiling MaxBytes, after every Set
\* (its eviction pass included) the running byte total is at most MaxBytes
\* plus the size of the entry that Set inserted.
C12_TotalWithinCeilingPlusInserted ==
  (last.op = "Set" /\ ~last.err) =>
     currentBytes <= MaxBytes + Len(last.data)

\* Three keys were inserted in order, the sizes summed past the ceiling and
\* the first key was evicted.
C12_InsertedPastCeiling ==
  /\ last.op = "Set" /\ last.key = "k3" /\ ~last.err
  /\ touched = <<"k1", "k2", "k3">>
  /\ index["k1"] = Nil /\ index["k2"] # Nil /\ index["k3"] # Nil
  /\ currentBytes = SizeOf("k2") + SizeOf("k3")
  /\ currentBytes <= MaxBytes

\* C13: restart round trip.  When Set(k, data, meta) has returned nil with
\* index.json written and the entry not evicted, a new store constructed
\* over the same directory has an entry for k with the same metadata
\* (headers, status code, size, CreatedAt), Get(k) returns it, ReadData(k)
\* returns data, and the byte total is the sum of the loaded entries' sizes.
C13_RestartRoundTrip ==
  [][ ( /\ last.op = "Set" /\ ~last.err /\ doc.st = "ok"
        /\ index[last.key] # Nil
        /\ last'.op = "New" ) =>
        LET k == last.key
            old == heap[index[k]].Metadata
        IN  /\ index'[k] # Nil
            /\ Get(Store', k).entry = index'[k]
            /\ heap'[index'[k]].Metadata.Headers = old.Headers
            /\ heap'[index'[k]].Metadata.StatusCode = old.StatusCode
            /\ heap'[index'[k]].Metadata.Size = old.Size
            /\ heap'[index'[k]].Metadata.CreatedAt = old.CreatedAt
            /\ Get(Store', k).valid = Get(Store, k).valid
            /\ ~ReadData(Store', k, "ok", "ok").err
            /\ ReadData(Store', k, "ok", "ok").data = last.data
            /\ currentBytes' = SumSizes(Store', Keys)
            /\ currentBytes' = currentBytes
    ]_vars

\* A store constructed over a directory that holds two entries.
C13_ReloadedTwoEntries ==
  /\ last.op = "New"
  /\ index["k1"] # Nil /\ index["k2"] # Nil
  /\ files["k1"].bytes = SmallA /\ files["k2"].bytes = SmallA
  /\ currentBytes = 2
  /\ accessList = <<"k2", "k1">>

\* C14: absent storage failures, after every completed mutating operation
\* (Set, UpdateMetadata, ReadData, eviction) index.json equals the index and
\* the access list in memory, so that a restart between two operations
\* rehydrates exactly the state before it.
C14_DocumentEqualsMemory ==
  \/ doc.st = "bad"
  \/ doc.st = "absent" /\ IndexDocument(Store) = [NoDoc EXCEPT !.st = "ok"]
  \/ doc.st = "ok" /\ doc = IndexDocument(Store)

\* After a restart the entry carries the CreatedAt of its Set and is stale,
\* while its .meta file holds the CreatedAt a later refresh wrote.
C14_RefreshLostByRestart ==
  /\ last.op = "New" /\ index["k1"] # Nil
  /\ ~Get(Store, "k1").valid
  /\ metas["k1"].st = "ok"
  /\ metas["k1"].m.CreatedAt = now
  /\ heap[index["k1"]].Metadata.CreatedAt = 0

\* C15: for every key in the index, Metadata.Size equals the byte length of
\* the artifact file stored for that key, after every Set, UpdateMetadata,
\* ReadData and eviction, in any sequence.
C15_SizeIsFileLength ==
  \A k \in Keys :
    index[k] # Nil =>
      /\ files[k].st = "ok"
      /\ heap[index[k]].Metadata.Size = Len(files[k].bytes)

\* A request that revalidated a stale entry has returned, no request is
\* inside the handler, and the entry's Size is not the length of its file.
C15_MismatchAtRest ==
  /\ \E r \in Reqs : /\ req[r].pc = "done" /\ req[r].end = "served"
                     /\ req[r].path = "CACHE_STALE_REVALIDATE"
                     /\ index[req[r].key] # Nil
                     /\ heap[index[req[r].key]].Metadata.Size
                          # Len(files[req[r].key].bytes)
  /\ \A r \in Reqs : req[r].pc \in {"idle", "done"}

\* C16: UpdateMetadata(key, metadata) on an absent key returns a not-found
\* error and changes nothing; on a present key it replaces that entry's
\* metadata and leaves the artifact files, the set of indexed keys, the
\* access list, the byte total and every other key's entry as they were.
C16_UpdateMetadataFrame ==
  [][ last'.op = "UpdateMetadata" =>
        LET k == last'.key
        IN  /\ index[k] = Nil =>
                 /\ last'.err
                 /\ index' = index /\ heap' = heap /\ accessList' = accessList
                 /\ currentBytes' = currentBytes /\ files' = files
                 /\ metas' = metas /\ doc' = doc
            /\ index[k] # Nil =>
                 /\ ~last'.err
                 /\ heap'[index'[k]].Metadata =
                      [heap[index[k]].Metadata EXCEPT !.CreatedAt = now,
                                                      !.LastAccessedAt = now]
                 /\ files' = files
                 /\ \A j \in Keys : index'[j] = Nil <=> index[j] = Nil
                 /\ accessList' = accessList
                 /\ currentBytes' = currentBytes
                 /\ \A j \in Keys \ {k} :
                      index[j] # Nil => heap'[index'[j]] = heap[index[j]]
    ]_vars

\* The older of two entries had its metadata refreshed and is still the
\* least recently used.
C16_RefreshedNotTouched ==
  /\ last.op = "UpdateMetadata" /\ last.key = "k1" /\ ~last.err
  /\ index["k1"] # Nil /\ index["k2"] # Nil
  /\ accessList = <<"k1", "k2">>
  /\ heap[index["k1"]].Metadata.CreatedAt = now /\ now > TTL
  /\ heap[index["k2"]].Metadata.CreatedAt < now

\* C17: ReadData(key) on an absent key returns a not-found error and leaves
\* the store unchanged; on a present key it returns the stored artifact
\* bytes, sets the entry's LastAccessedAt to now and moves the key to the
\* most-recently-used end of the access list, and leaves CreatedAt (hence
\* freshness), the set of keys, the byte total, the artifact files and all
\* other entries unchanged.
C17_ReadDataFrame ==
  [][ last'.op = "ReadData" =>
        LET k == last'.key
            Other(x) == x # k
        IN  /\ index[k] = Nil =>
                 /\ last'.err
                 /\ index' = index /\ heap' = heap /\ accessList' = accessList
                 /\ currentBytes' = currentBytes /\ files' = files
                 /\ metas' = metas /\ doc' = doc
            /\ index[k] # Nil =>
                 /\ ~last'.err
                 /\ last'.out = files[k].bytes
                 /\ heap'[index'[k]].Metadata =
                      [heap[index[k]].Metadata EXCEPT !.LastAccessedAt = now]
                 /\ Get(Store', k).valid = Get(Store, k).valid
                 /\ accessList' = Append(SelectSeq(accessList, Other), k)
                 /\ \A j \in Keys : index'[j] = Nil <=> index[j] = Nil
                 /\ currentBytes' = currentBytes
                 /\ files' = files
                 /\ \A j \in Keys \ {k} :
                      index[j] # Nil => heap'[index'[j]] = heap[index[j]]
    ]_vars

\* A stale entry was read: it moved behind the younger key and is still
\* stale.
C17_StaleEntryRead ==
  /\ last.op = "ReadData" /\ last.key = "k1" /\ ~last.err
  /\ last.out = SmallA
  /\ index["k1"] # Nil /\ index["k2"] # Nil
  /\ accessList = <<"k2", "k1">>
  /\ heap[index["k1"]].Metadata.LastAccessedAt = now
  /\ now - heap[index["k1"]].Metadata.CreatedAt > TTL
  /\ heap[index["k2"]].Metadata.CreatedAt
       > heap[index["k1"]].Metadata.CreatedAt

\* C18: when the upstream call fails, the request ends with a 502, the
\* store (index entries, access list, byte total, artifact and metadata
\* files, index document) is what it was before the request's upstream
\* call, and the request has made one upstream call and makes no other;
\* this holds for an absent key and for a stale entry.
C18_UpstreamFailureLeavesStore ==
  [][ \A r \in Reqs :
        LET q == req[r]
            n == req'[r]
            Same == /\ IndexDocument(Store)' = IndexDocument(Store)
                    /\ currentBytes' = currentBytes /\ files' = files
                    /\ metas' = metas /\ doc' = doc
        IN  /\ (q.pc \in {"etag", "lastmod", "upstream"}
                  /\ n.pc \in {"lastmod", "upstream"} /\ n.pc # q.pc) => Same
            /\ (q.pc = "upstream" /\ n.end = "upstream_failed") =>
                 /\ n.pc = "done"
                 /\ n.w.wroteHeader /\ n.w.code = StatusBadGateway
                 /\ q.path \in {"CACHE_ABSENT_FETCH", "CACHE_STALE_REVALIDATE"}
                 /\ q.calls = 1 /\ n.calls = 1
                 /\ Same
            /\ (q.pc = "done" /\ q.end = "upstream_failed" /\ n # q) =>
                 n.pc = "idle" /\ n.calls = 0
    ]_vars

\* The revalidation of a stale entry failed upstream; the entry is still
\* there, as stale as it was.
C18_StaleEntryKeptAfterFailure ==
  \E r \in Reqs :
    /\ req[r].pc = "done" /\ req[r].end = "upstream_failed"
    /\ req[r].path = "CACHE_STALE_REVALIDATE"
    /\ req[r].w.code = StatusBadGateway /\ req[r].calls = 1
    /\ index[req[r].key] # Nil
    /\ ~Get(Store, req[r].key).valid
    /\ files[req[r].key].bytes = Body1

\* What callers can observe of the store's memory.
Memory(S) == [entries |-> IndexDocument(S).entries,
              accessList |-> S.accessList, currentBytes |-> S.currentBytes]

\* C19: store construction never fails because of the index document: when
\* index.json is absent, or present but undecodable, New returns a store
\* with an empty index, an empty access list and byte total 0, on which
\* Set, Get and ReadData behave as on a fresh store.
C19_NewSurvivesBadDocument ==
  [][ (last'.op = "New" /\ doc.st \in {"absent", "bad"}) =>
        /\ Memory(Store') = Memory(EmptyStore)
        /\ \A k \in Keys :
             /\ Get(Store', k) = Get(EmptyStore, k)
             /\ ReadData(Store', k, "ok", "ok").err
             /\ \A d \in StoreData :
                  LET md == CallerMetadata(now)
                      a == Set(Store', k, d, md, "ok", "ok", "ok")
                      b == Set(EmptyStore, k, d, md, "ok", "ok", "ok")
                  IN  /\ a.err = b.err
                      /\ Memory(a.S) = Memory(b.S)
                      /\ Get(a.S, k).valid = Get(b.S, k).valid
                      /\ ReadData(a.S, k, "ok", "ok").err
                           = ReadData(b.S, k, "ok", "ok").err
                      /\ ReadData(a.S, k, "ok", "ok").data
                           = ReadData(b.S, k, "ok", "ok").data
    ]_vars

\* A store constructed over a directory whose index.json is undecodable
\* and which still holds an artifact file.
C19_StartedEmptyOverBadDocument ==
  /\ last.op = "New" /\ doc.st = "bad"
  /\ \A k \in Keys : index[k] = Nil
  /\ accessList = <<>> /\ currentBytes = 0
  /\ files["k1"].st = "ok" /\ files["k1"].bytes = SmallA

\* C20: GenerateKey is a pure function of the path and the name-to-value
\* mapping: the key it returns is the key it returns for the same path and
\* mapping under every order in which the parameters may be visited, and
\* the call neither depends on nor changes the store.
C20_GenerateKeyIsPure ==
  [][ last'.op = "GenerateKey" =>
        LET path == last'.data[1]
            query == last'.data[2]
        IN  /\ \A order \in Orders(DOMAIN query) :
                 GenerateKey(path, query, order) = last'.out
            /\ index' = index /\ heap' = heap /\ accessList' = accessList
            /\ currentBytes' = currentBytes /\ files' = files
            /\ metas' = metas /\ doc' = doc /\ mu' = mu
    ]_vars

\* A key was generated for three parameters on a store that holds an entry.
C20_KeyOfThreeParameters ==
  /\ last.op = "GenerateKey"
  /\ DOMAIN last.data[2] = {"d", "r", "s"}
  /\ last.out = Sha256Hex("/avatar/a?d=1?r=1?s=1")
  /\ index["k1"] # Nil

\* C21: two different (path, params) pairs never collide: when two
\* GenerateKey calls differ in the path, in the set of parameter names or
\* in some parameter value, the strings they hash differ, and so do the keys.
C21_DistinctInputsDistinctKeys ==
  [][ ( /\ last.op = "GenerateKey" /\ last'.op = "GenerateKey"
        /\ last'.data # last.data )
        => last'.out # last.out
    ]_vars

\* The key of one parameter d whose value holds "?r=1".
C21_ValueHoldsSeparator ==
  /\ last.op = "GenerateKey"
  /\ DOMAIN last.data[2] = {"d"}
  /\ last.data[2]["d"] = "1?r=1"
  /\ last.out = Sha256Hex("/avatar/a?d=1?r=1")


\* The claims' notion of a header matching the allow-list: its host is an
\* allowed domain or a subdomain of one.
MatchesAllowed(h, allowed) ==
  /\ h # NoValue
  /\ \E i \in 1..Len(allowed) :
       h.host = allowed[i] \/ HasDotSuffix(h.host, allowed[i])

\* C22: with a non-empty allow-list, a request (GET or OPTIONS) whose Origin
\* and Referer are each absent or matching no allowed domain is answered 403
\* in the step that accepts it: no key is derived, no upstream call is made
\* and the store is neither read nor changed. With an empty allow-list no
\* request is answered 403.
C22_UnmatchedIsForbidden ==
  [][ \A r \in Reqs, method \in Methods, origin \in Origins,
         referer \in Referers :
        AcceptWith(r, method, origin, referer) =>
          /\ ( /\ Len(allowedOrigins) > 0
               /\ ~MatchesAllowed(origin, allowedOrigins)
               /\ ~MatchesAllowed(referer, allowedOrigins) )
             => /\ req'[r].pc = "done"
                /\ req'[r].end = "forbidden"
                /\ req'[r].w.code = StatusForbidden
                /\ req'[r].key = ""
                /\ req'[r].calls = 0
                /\ Store' = Store
                /\ touched' = touched
                /\ mu' = mu
          /\ Len(allowedOrigins) = 0
             => /\ req'[r].end # "forbidden"
                /\ req'[r].w.code # StatusForbidden
    ]_vars

\* A request was refused over a store that holds an entry.
C22_RefusedOverFilledStore ==
  /\ Len(allowedOrigins) > 0
  /\ req[1].pc = "done"
  /\ req[1].end = "forbidden"
  /\ req[1].w.code = StatusForbidden
  /\ req[1].calls = 0
  /\ index # EmptyStore.index

\* C23: with a non-empty allow-list, a request whose Origin is absent or not
\* allowed and whose Referer URL has a host equal to an allowed domain, or a
\* subdomain of one, is not answered 403.
C23_RefererPasses ==
  [][ \A r \in Reqs, method \in Methods, origin \in Origins,
         referer \in Referers :
        ( /\ AcceptWith(r, method, origin, referer)
          /\ Len(allowedOrigins) > 0
          /\ ~MatchesAllowed(origin, allowedOrigins)
          /\ MatchesAllowed(referer, allowedOrigins) )
        => /\ req'[r].end # "forbidden"
           /\ req'[r].w.code # StatusForbidden
    ]_vars

\* The host taken from an allowed Referer is one the origin check refuses, and
\* a request has been refused under the allow-list.
C23_AllowedRefererRefused ==
  /\ allowedOrigins = <<Example>>
  /\ MatchesAllowed(URL(Example), allowedOrigins)
  /\ ~checkAccessControl(allowedOrigins, NoValue, URL(Example))
  /\ req[1].end = "forbidden"
  /\ req[1].w.code = StatusForbidden


C25_FailedSetLeavesStore ==
  [][ (last'.op = "Set" /\ last'.err)
      => /\ Memory(Store') = Memory(Store)
         /\ files'[last'.key] = files[last'.key]
         /\ \A k \in Keys : index'[k] = Nil => files'[k] = NoFile
    ]_vars

\* Set returned an error for a key that has no entry, and the artifact it
\* wrote is in the directory.
C25_ArtifactWithoutEntry ==
  /\ last.op = "Set"
  /\ last.err
  /\ index[last.key] = Nil
  /\ files[last.key] = [st |-> "ok", bytes |-> last.data]


\* What one Set of the handler stores together: the status and the headers
\* of an upstream response, and its body.
StoredTogether ==
  {[code |-> up.status, headers |-> ExtractHeaders(up), body |-> up.body] :
     up \in UpResponses}

\* C26: a response served from the cache carries a body and a status and
\* header set that one Set stored together, whatever Set runs concurrently
\* on the key.
C26_ServedPairStoredTogether ==
  [][ \A r \in Reqs :
        (req[r].pc = "meta" /\ req'[r].pc = "done"
         /\ req'[r].end = "served")
        => [code |-> req'[r].w.code, headers |-> req'[r].w.headers,
            body |-> req'[r].w.body] \in StoredTogether
    ]_vars

\* A fresh hit answered with the bytes of one Set under the status and the
\* entity tag of the next, while the store holds the latter's bytes.
C26_BytesOfOneMetadataOfOther ==
  \E r \in Reqs :
    /\ req[r].pc = "done"
    /\ req[r].end = "served"
    /\ req[r].path = "CACHE_FRESH"
    /\ req[r].w.body = Body1
    /\ req[r].w.code = StatusNotFound
    /\ req[r].w.headers.ETag = "A"
    /\ index[req[r].key] # Nil
    /\ files[req[r].key].bytes = Body2
    /\ heap[index[req[r].key]].Metadata.StatusCode = StatusNotFound
    /\ heap[index[req[r].key]].Metadata.Size = Len(Body2)


\* C27: the handler calls UpdateMetadata and ReadData only while the key has
\* an index entry, and a request that Get gave an entry is never answered
\* with an internal error because the entry is gone.
C27_CalledOnlyWhenPresent ==
  [][ \A r \in Reqs :
        LET q == req[r]
            n == req'[r]
        IN  /\ (q.pc \in {"update", "read"} /\ n.pc # q.pc)
               => index[q.key] # Nil
            /\ (q.pc \in {"read", "meta"} /\ n.pc = "done"
                /\ n.end = "cache_failed")
               => index[q.key] # Nil
    ]_vars

\* A fresh hit answered 500: the key's entry and artifact were evicted after
\* Get returned the entry.
C27_FreshHitFailedOnEvictedEntry ==
  \E r \in Reqs :
    /\ req[r].pc = "done"
    /\ req[r].end = "cache_failed"
    /\ req[r].path = "CACHE_FRESH"
    /\ req[r].w.code = StatusInternalServerError
    /\ index[req[r].key] = Nil
    /\ files[req[r].key] = NoFile


\* C28: no read of an entry's metadata runs concurrently with a mutation of
\* that entry: while a handler is copying the metadata of the entry Get
\* returned, no step of another goroutine changes that entry's metadata.
C28_NoMutationDuringRead ==
  [][ \A r \in Reqs :
        (req[r].pc = "copy2" /\ req'[r].pc = "copy2")
        => heap'[req[r].entry].Metadata = heap[req[r].entry].Metadata
    ]_vars

\* A handler is in the middle of its copy, and the entry no longer holds
\* what the copy's first part read: ReadData of another request stamped it.
C28_EntryChangedUnderCopy ==
  \E r \in Reqs :
    /\ req[r].pc = "copy2"
    /\ req[r].entry # Nil
    /\ index[req[r].key] = req[r].entry
    /\ heap[req[r].entry].Metadata # req[r].metadata
    /\ heap[req[r].entry].Metadata.LastAccessedAt
         # req[r].metadata.LastAccessedAt


\* C29: the response of a fresh hit carries a max-age equal to the entry's
\* remaining TTL at serve time (the TTL minus the entry's age), so it never
\* exceeds the time left before the entry is stale.
C29_MaxAgeIsRemainingTtl ==
  [][ \A r \in Reqs :
        LET q == req[r]
            n == req'[r]
        IN  (q.path = "CACHE_FRESH" /\ q.pc = "meta" /\ n.pc = "done"
             /\ n.end = "served")
            => n.w.maxAge
                 = TTL - (now - heap[index[q.key]].Metadata.CreatedAt)
    ]_vars

\* A fresh hit on an entry with no time left was answered with max-age = TTL.
C29_FullMaxAgeOnAgedEntry ==
  \E r \in Reqs :
    /\ req[r].pc = "done"
    /\ req[r].end = "served"
    /\ req[r].path = "CACHE_FRESH"
    /\ index[req[r].key] # Nil
    /\ now - heap[index[req[r].key]].Metadata.CreatedAt = TTL
    /\ req[r].w.maxAge = ttlSeconds
    /\ ttlSeconds > 0


\* The keys evictIfNeeded pops from B's access list when it pops i of them,
\* and the byte total left once their entries are removed.
Popped(B, i) == {B.accessList[j] : j \in 1..i}
TotalAfter(B, i) == B.currentBytes - SumSizes(B, Popped(B, i))

\* evictIfNeeded on store B: it pops a prefix of the access list and removes
\* exactly the entries and files of the popped keys; it changes nothing when
\* the total is within the ceiling; before each pop the total is above the
\* ceiling; it stops once the total is within the ceiling or the list is
\* empty.
EvictsNoMoreThanNeeded(B) ==
  LET R == evictIfNeeded(B)
      n == Len(B.accessList) - Len(R.accessList)
  IN  /\ n \in 0..Len(B.accessList)
      /\ R.accessList = SubSeq(B.accessList, n + 1, Len(B.accessList))
      /\ B.currentBytes <= MaxBytes => R = B
      /\ \A k \in Keys :
           IF k \in Popped(B, n)
           THEN R.index[k] = Nil
                /\ (B.index[k] # Nil => R.files[k] = NoFile)
           ELSE R.index[k] = B.index[k] /\ R.files[k] = B.files[k]
      /\ R.currentBytes = TotalAfter(B, n)
      /\ \A i \in 0..(n - 1) : TotalAfter(B, i) > MaxBytes
      /\ R.currentBytes <= MaxBytes \/ R.accessList = <<>>

\* C30: evictIfNeeded terminates, removes nothing when the running total is
\* at or below the ceiling, and otherwise removes keys from the
\* least-recently-used end only until the total first is at or below the
\* ceiling, on the store as it is and on the store as Set hands it over
\* after inserting any key with any payload.
C30_EvictionIsMinimal ==
  /\ EvictsNoMoreThanNeeded(Store)
  /\ \A key \in Keys, data \in StoreData :
       EvictsNoMoreThanNeeded(
         SetInserted(Store, key,
                     [CallerMetadata(now) EXCEPT !.Size = Len(data)]))

\* A Set of a payload as large as the ceiling evicted the two older keys and
\* kept the one it inserted.
C30_TwoEvictedForOne ==
  /\ last.op = "Set" /\ ~last.err /\ last.key = "k3"
  /\ Len(last.data) = MaxBytes
  /\ index["k1"] = Nil /\ index["k2"] = Nil /\ index["k3"] # Nil
  /\ files["k1"] = NoFile /\ files["k2"] = NoFile
  /\ accessList = <<"k3">>
  /\ currentBytes = MaxBytes


\* C31: on a store started empty or reloaded from the index document it
\* wrote, after every Set, ReadData, UpdateMetadata, eviction and restart the
\* access list holds no key twice and holds exactly the keys of the index.
C31_ListIsIndexKeys ==
  /\ \A i, j \in 1..Len(accessList) : accessList[i] = accessList[j] => i = j
  /\ {accessList[i] : i \in 1..Len(accessList)}
       = {k \in Keys : index[k] # Nil}

\* ReadData moved a listed key to the tail: the list holds both keys once,
\* in an order that differs from the one in the index document.
C31_ListedKeyMovedToTail ==
  /\ last.op = "ReadData" /\ ~last.err /\ last.key = "k1"
  /\ index["k1"] # Nil /\ index["k2"] # Nil
  /\ accessList = <<"k2", "k1">>
  /\ doc.st = "ok"
  /\ doc.accessList = <<"k1", "k2">>


\* C32: the running byte total is at or below the ceiling whenever Set has
\* returned, stays so across ReadData and UpdateMetadata, and is so after a
\* restart that reloads the index document under the same ceiling.
C32_TotalWithinCeiling == currentBytes <= MaxBytes

\* New has reloaded the index document: the total it summed from the
\* recorded sizes is above the ceiling, the artifacts on disk are within it.
C32_ReloadedAboveCeiling ==
  /\ last.op = "New"
  /\ currentBytes > MaxBytes
  /\ index["k1"] # Nil /\ index["k2"] # Nil
  /\ heap[index["k1"]].Metadata.Size > Len(files["k1"].bytes)
  /\ Len(files["k1"].bytes) + Len(files["k2"].bytes) <= MaxBytes

====
